---------------------------- MODULE Spec2Model ----------------------------
(***************************************************************************)
(* The echo program (program/src/processor.rs, program/src/state.rs):      *)
(* five instructions over byte buffers held in accounts.  Account data is  *)
(* modelled byte by byte, records are encoded and decoded as Borsh does,   *)
(* program-derived addresses are modelled as the tuple of their seeds (a   *)
(* collision-free hash) with a fixed table of the seed tuples that fall on *)
(* the curve and therefore yield no address.                               *)
(*                                                                         *)
(* One instruction is one step.  A handler is an operator that returns the *)
(* error code, the effects it performed in order (account created, tokens  *)
(* burned, buffer written) and the buffer as the handler left it; the step *)
(* commits the effects when the handler returned Ok and discards them      *)
(* otherwise, as the host runtime does for a failed instruction.           *)
(***************************************************************************)
EXTENDS Integers, Sequences, FiniteSets, TLC

VARIABLES data, tokens, last, echoed, initializer, codec

vars == <<data, tokens, last, echoed, initializer, codec>>

---------------------------------------------------------------------------
(* Bounds of the model *)

\* longest instruction payload
MaxData == 2
\* longest echo_data an initialize instruction reserves
MaxEcho == 1
\* longest plain echo buffer the host creates
MaxBuf == 2

---------------------------------------------------------------------------
(* Identities, addresses, byte strings *)

Users == {"A1", "A2"}
Mints == {"M1", "M2"}

\* byte values that instruction payloads are drawn from
PayloadBytes == {0, 7}

\* numeric seeds (buffer_seed, price) that instructions carry
Seeds == {1, 2}

Min(a, b) == IF a < b THEN a ELSE b

Zeros(n) == [i \in 1..n |-> 0]

SeqsUpTo(S, n) == UNION {[1..k -> S] : k \in 0..n}

Payloads == SeqsUpTo(PayloadBytes, MaxData)

\* The address of a keypair account
KeyAddr(name) == <<"key", name, 0, 0>>


\* The address bytes of a keypair account, as Borsh writes a Pubkey: 32 raw bytes
PubkeyBytes(name) ==
    LET c == CASE name = "A1" -> 161
               [] name = "A2" -> 162
               [] name = "M1" -> 177
               [] name = "M2" -> 178
               [] OTHER -> 255
    IN  [i \in 1..32 |-> c]

PubkeyFromBytes(bs) ==
    IF \E k \in Users \cup Mints : PubkeyBytes(k) = bs
    THEN CHOOSE k \in Users \cup Mints : PubkeyBytes(k) = bs
    ELSE "unknown"

---------------------------------------------------------------------------
(* Binary codec: Borsh, little-endian integers, u32 length prefix *)

\* byte i (from 1) of n.to_le_bytes()
RECURSIVE LeByte(_, _)
LeByte(n, i) == IF i = 1 THEN n % 256 ELSE LeByte(n \div 256, i - 1)

\* n.to_le_bytes() for an integer of w bytes
ToLeBytes(n, w) == [i \in 1..w |-> LeByte(n, i)]

\* u64::from_le_bytes / u32::from_le_bytes.  Every number the instructions
\* carry is below 2^24; a byte string that encodes a larger one (bytes of
\* another field read as a number) decodes to 2^24, above all of them.
FromLeBytes(bs) ==
    IF \E i \in 4..Len(bs) : bs[i] # 0 THEN 256 * 256 * 256
    ELSE bs[1] + 256 * bs[2] + 256 * 256 * bs[3]

\* AuthorizedBufferHeader written with the length of echo_data as a u64
SerializeAuthorizedWideLen(h) ==
    <<h.bump_seed>> \o ToLeBytes(h.buffer_seed, 8)
        \o ToLeBytes(Len(h.echo_data), 8) \o h.echo_data

\* BorshSerialize of AuthorizedBufferHeader:
\* [bump_seed:u8][buffer_seed:u64][len:u32][echo_data]
SerializeAuthorized(h) ==
    <<h.bump_seed>> \o ToLeBytes(h.buffer_seed, 8)
        \o ToLeBytes(Len(h.echo_data), 4) \o h.echo_data

\* BorshSerialize of VendingMachineBufferHeader:
\* [bump_seed:u8][price:u64][vending_machine_mint:32][len:u32][echo_data]
SerializeVending(h) ==
    <<h.bump_seed>> \o ToLeBytes(h.price, 8) \o PubkeyBytes(h.vending_machine_mint)
        \o ToLeBytes(Len(h.echo_data), 4) \o h.echo_data

NoAuthorized == [bump_seed |-> 0, buffer_seed |-> 0, echo_data |-> <<>>]
NoVending ==
    [bump_seed |-> 0, price |-> 0, vending_machine_mint |-> "unknown", echo_data |-> <<>>]

\* AuthorizedBufferHeader::try_from_slice: fails on a short slice and on
\* bytes left over after the record
DeserializeAuthorized(bs) ==
    IF Len(bs) < 1 + 8 + 4 THEN [ok |-> FALSE, v |-> NoAuthorized]
    ELSE LET n == FromLeBytes(SubSeq(bs, 10, 13))
         IN  IF Len(bs) # 13 + n THEN [ok |-> FALSE, v |-> NoAuthorized]
             ELSE [ok |-> TRUE,
                   v |-> [bump_seed |-> bs[1],
                          buffer_seed |-> FromLeBytes(SubSeq(bs, 2, 9)),
                          echo_data |-> SubSeq(bs, 14, Len(bs))]]

\* VendingMachineBufferHeader::try_from_slice
DeserializeVending(bs) ==
    IF Len(bs) < 1 + 8 + 32 + 4 THEN [ok |-> FALSE, v |-> NoVending]
    ELSE LET n == FromLeBytes(SubSeq(bs, 42, 45))
         IN  IF Len(bs) # 45 + n THEN [ok |-> FALSE, v |-> NoVending]
             ELSE [ok |-> TRUE,
                   v |-> [bump_seed |-> bs[1],
                          price |-> FromLeBytes(SubSeq(bs, 2, 9)),
                          vending_machine_mint |-> PubkeyFromBytes(SubSeq(bs, 10, 41)),
                          echo_data |-> SubSeq(bs, 46, Len(bs))]]

\* record.serialize(&mut *account_data): the encoding is written over the
\* start of the slice; the write fails (after writing what fits) when the
\* slice is shorter than the encoding
WriteSlice(buf, enc) ==
    IF Len(enc) > Len(buf)
    THEN [ok |-> FALSE, buf |-> SubSeq(enc, 1, Len(buf))]
    ELSE [ok |-> TRUE, buf |-> enc \o SubSeq(buf, Len(enc) + 1, Len(buf))]

\* dst.copy_from_slice(src): panics unless the two lengths are equal
CopyFromSlice(dst, src) ==
    IF Len(dst) = Len(src) THEN [ok |-> TRUE, v |-> src] ELSE [ok |-> FALSE, v |-> dst]

---------------------------------------------------------------------------
(* Address derivation *)

\* The seed tuples whose hash falls on the curve, so that they yield no
\* program address: a fixed table standing for the hash
OnCurve(label, id, seed, bump) == bump = 255 /\ id \in {"A2", "M2"}

\* create_program_address with the identity left out of the hash
CreateProgramAddressNoId(label, id, seed, bump) ==
    IF OnCurve(label, id, seed, bump)
    THEN [ok |-> FALSE, key |-> <<"none", "none", 0, 0>>]
    ELSE [ok |-> TRUE, key |-> <<label, "A1", seed, bump>>]

\* Pubkey::create_program_address(&[label, id, seed.to_le_bytes(), [bump]], program_id)
CreateProgramAddress(label, id, seed, bump) ==
    IF OnCurve(label, id, seed, bump)
    THEN [ok |-> FALSE, key |-> <<"none", "none", 0, 0>>]
    ELSE [ok |-> TRUE, key |-> <<label, id, seed, bump>>]

RECURSIVE FindBump(_, _, _, _)
FindBump(label, id, seed, bump) ==
    IF CreateProgramAddress(label, id, seed, bump).ok \/ bump = 0 THEN bump
    ELSE FindBump(label, id, seed, bump - 1)

\* find_program_address with the numeric seed left out of the hash
FindProgramAddressNoSeed(label, id, seed) ==
    LET b == FindBump(label, id, 1, 255)
    IN  [key |-> CreateProgramAddress(label, id, 1, b).key, bump |-> b]

\* Pubkey::find_program_address: the highest bump that yields an address
FindProgramAddress(label, id, seed) ==
    LET b == FindBump(label, id, seed, 255)
    IN  [key |-> CreateProgramAddress(label, id, seed, b).key, bump |-> b]

---------------------------------------------------------------------------
(* Collaborators: the system program's create_account, the token program's burn *)

\* Labels of the seeds each initialize instruction derives the expected
\* address from, and of the signer seeds it hands to invoke_signed
AuthorizedDeriveLabel == "authority"
AuthorizedSignerLabel == "authority"
VendingDeriveLabel == "vending_machine"
VendingSignerLabel == "authority"

\* create_account that allocates over an account already in use
CreateAccountCpiOverwrite(buf, target, label, id, seed, bump) ==
    LET pda == CreateProgramAddress(label, id, seed, bump)
    IN  IF ~pda.ok THEN "InvalidSeeds"
        ELSE IF pda.key # target THEN "MissingRequiredSignature"
        ELSE "Ok"

\* invoke_signed(create_account(payer, target, .., size, program_id), .., signer seeds):
\* the new account must sign, and the only signature the program can give is
\* that of the address its signer seeds derive; the system program refuses an
\* account that is already in use
CreateAccountCpi(buf, target, label, id, seed, bump) ==
    LET pda == CreateProgramAddress(label, id, seed, bump)
    IN  IF ~pda.ok THEN "InvalidSeeds"
        ELSE IF pda.key # target THEN "MissingRequiredSignature"
        ELSE IF Len(buf) > 0 THEN "AccountAlreadyInUse"
        ELSE "Ok"

\* spl_token burn(source, mint, authority, amount) on the token account record tok
BurnCpi(tok, mint, authority, amount) ==
    IF tok.amount < amount THEN "InsufficientFunds"
    ELSE IF tok.mint # mint THEN "MintMismatch"
    ELSE IF tok.owner # authority THEN "OwnerMismatch"
    ELSE "Ok"

---------------------------------------------------------------------------
(* Instruction handlers.  Each returns the result code, the effects performed *)
(* before it returned, and the target buffer as the handler left it.          *)

Outcome(result, created, burned, wrote, buf) ==
    [result |-> result, created |-> created, burned |-> burned,
     wrote |-> wrote, buf |-> buf]

\* the scan stopping after the first byte
IsAllZeroFirstByte(buf) == Len(buf) = 0 \/ buf[1] = 0

\* the scan for a non-zero byte
IsAllZero(buf) == \A i \in 1..Len(buf) : buf[i] = 0

\* Echo without the scan for a non-zero byte
EchoHandlerNoScan(buf, d) ==
    IF Len(buf) = 0 THEN Outcome("NonZeroData", FALSE, 0, FALSE, buf)
    ELSE LET src == IF Len(buf) > Len(d) THEN d ELSE SubSeq(d, 1, Len(buf))
             c == CopyFromSlice(buf, src)
         IN  IF ~c.ok THEN Outcome("Panic", FALSE, 0, FALSE, buf)
             ELSE Outcome("Ok", FALSE, 0, TRUE, c.v)

\* Echo without the test for an empty account
EchoHandlerNoEmptyCheck(buf, d) ==
    IF ~IsAllZero(buf) THEN Outcome("NonZeroData", FALSE, 0, FALSE, buf)
    ELSE LET src == IF Len(buf) > Len(d) THEN d ELSE SubSeq(d, 1, Len(buf))
             c == CopyFromSlice(buf, src)
         IN  IF ~c.ok THEN Outcome("Panic", FALSE, 0, FALSE, buf)
             ELSE Outcome("Ok", FALSE, 0, TRUE, c.v)

\* EchoInstruction::Echo { data }
EchoHandler(buf, d) ==
    IF Len(buf) = 0 THEN Outcome("NonZeroData", FALSE, 0, FALSE, buf)
    ELSE IF ~IsAllZero(buf) THEN Outcome("NonZeroData", FALSE, 0, FALSE, buf)
    ELSE LET src == IF Len(buf) > Len(d) THEN d ELSE SubSeq(d, 1, Len(buf))
             c == CopyFromSlice(buf, src)
         IN  IF ~c.ok THEN Outcome("Panic", FALSE, 0, FALSE, buf)
             ELSE Outcome("Ok", FALSE, 0, TRUE, c.v)

\* the header InitializeAuthorizedEcho builds: vec![0; buffer_size - 9 - 4]
AuthorizedInitRecord(bump, seed, size) ==
    [bump_seed |-> bump, buffer_seed |-> seed, echo_data |-> Zeros(size - 9 - 4)]

\* EchoInstruction::InitializeAuthorizedEcho { buffer_seed, buffer_size }
InitializeAuthorizedEchoHandler(buf, target, authority, signer, seed, size) ==
    IF ~signer THEN Outcome("AuthorityNotSigner", FALSE, 0, FALSE, buf)
    ELSE LET pda == FindProgramAddress(AuthorizedDeriveLabel, authority, seed)
         IN  IF pda.key # target
             THEN Outcome("InvalidAuthorizedBuffer", FALSE, 0, FALSE, buf)
             ELSE LET cpi == CreateAccountCpi(buf, target, AuthorizedSignerLabel,
                                              authority, seed, pda.bump)
                  IN  IF cpi # "Ok" THEN Outcome(cpi, FALSE, 0, FALSE, buf)
                      ELSE IF size < 9 + 4
                      THEN Outcome("Panic", TRUE, 0, FALSE, Zeros(size))
                      ELSE LET w == WriteSlice(Zeros(size), SerializeAuthorized(
                                        AuthorizedInitRecord(pda.bump, seed, size)))
                           IN  IF ~w.ok THEN Outcome("BorshIoError", TRUE, 0, TRUE, w.buf)
                               ELSE Outcome("Ok", TRUE, 0, TRUE, w.buf)

\* the payload prefix stored as the new echo_data, without the zero fill
FillAndCopyTruncated(echo_data, d) ==
    [ok |-> TRUE, v |-> SubSeq(d, 1, Min(Len(echo_data), Len(d)))]

\* echo_data.fill(0); echo_data.copy_from_slice(&data[..min(len(echo_data), len(data))])
FillAndCopy(echo_data, d) ==
    CopyFromSlice(Zeros(Len(echo_data)), SubSeq(d, 1, Min(Len(echo_data), Len(d))))

\* the record re-encoded with a header built anew, its buffer_seed left at 0
AuthorizedWriteFreshHeader(buf, rec, d) ==
    LET c == FillAndCopy(rec.echo_data, d)
        w == WriteSlice(buf, SerializeAuthorized(
                 [bump_seed |-> rec.bump_seed, buffer_seed |-> 0, echo_data |-> c.v]))
    IN  IF ~c.ok THEN Outcome("Panic", FALSE, 0, FALSE, buf)
        ELSE IF ~w.ok THEN Outcome("BorshIoError", FALSE, 0, TRUE, w.buf)
        ELSE Outcome("Ok", FALSE, 0, TRUE, w.buf)

\* AuthorizedEcho once the authority is verified: zero echo_data, copy the
\* payload in, re-encode the record over the buffer
AuthorizedWrite(buf, rec, d) ==
    LET c == FillAndCopy(rec.echo_data, d)
    IN  IF ~c.ok THEN Outcome("Panic", FALSE, 0, FALSE, buf)
        ELSE LET w == WriteSlice(buf, SerializeAuthorized([rec EXCEPT !.echo_data = c.v]))
             IN  IF ~w.ok THEN Outcome("BorshIoError", FALSE, 0, TRUE, w.buf)
                 ELSE Outcome("Ok", FALSE, 0, TRUE, w.buf)

\* AuthorizedEcho without the check of the authority's signature
AuthorizedEchoHandlerUnsigned(buf, target, authority, signer, d) ==
    LET dec == DeserializeAuthorized(buf)
        pda == CreateProgramAddress(AuthorizedDeriveLabel, authority,
                                    dec.v.buffer_seed, dec.v.bump_seed)
    IN  IF ~dec.ok THEN Outcome("BorshIoError", FALSE, 0, FALSE, buf)
        ELSE IF ~pda.ok THEN Outcome("InvalidSeeds", FALSE, 0, FALSE, buf)
        ELSE IF pda.key # target THEN Outcome("InvalidAuthority", FALSE, 0, FALSE, buf)
        ELSE AuthorizedWrite(buf, dec.v, d)

\* EchoInstruction::AuthorizedEcho { data }
AuthorizedEchoHandler(buf, target, authority, signer, d) ==
    IF ~signer THEN Outcome("AuthorityNotSigner", FALSE, 0, FALSE, buf)
    ELSE LET dec == DeserializeAuthorized(buf)
         IN  IF ~dec.ok THEN Outcome("BorshIoError", FALSE, 0, FALSE, buf)
             ELSE LET pda == CreateProgramAddress(AuthorizedDeriveLabel, authority,
                                                  dec.v.buffer_seed, dec.v.bump_seed)
                  IN  IF ~pda.ok THEN Outcome("InvalidSeeds", FALSE, 0, FALSE, buf)
                      ELSE IF pda.key # target
                      THEN Outcome("InvalidAuthority", FALSE, 0, FALSE, buf)
                      ELSE AuthorizedWrite(buf, dec.v, d)

\* the header InitializeVendingMachineEcho builds: vec![0; buffer_size - 1 - 8 - 4 - 4]
VendingInitRecord(bump, price, mint, size) ==
    [bump_seed |-> bump, price |-> price, vending_machine_mint |-> mint,
     echo_data |-> Zeros(size - 1 - 8 - 4 - 4)]

\* EchoInstruction::InitializeVendingMachineEcho { price, buffer_size }
InitializeVendingMachineEchoHandler(buf, target, mint, signer, writable, price, size) ==
    IF ~signer THEN Outcome("AuthorityNotSigner", FALSE, 0, FALSE, buf)
    ELSE IF ~writable THEN Outcome("InvalidArgument", FALSE, 0, FALSE, buf)
    ELSE LET pda == FindProgramAddress(VendingDeriveLabel, mint, price)
         IN  IF pda.key # target
             THEN Outcome("InvalidAuthorizedBuffer", FALSE, 0, FALSE, buf)
             ELSE LET cpi == CreateAccountCpi(buf, target, VendingSignerLabel,
                                              mint, price, pda.bump)
                  IN  IF cpi # "Ok" THEN Outcome(cpi, FALSE, 0, FALSE, buf)
                      ELSE IF size < 1 + 8 + 4 + 4
                      THEN Outcome("Panic", TRUE, 0, FALSE, Zeros(size))
                      ELSE LET w == WriteSlice(Zeros(size), SerializeVending(
                                        VendingInitRecord(pda.bump, price, mint, size)))
                           IN  IF ~w.ok THEN Outcome("BorshIoError", TRUE, 0, TRUE, w.buf)
                               ELSE Outcome("Ok", TRUE, 0, TRUE, w.buf)

\* the buffer written before the burn's result is looked at
VendingWriteThenBurn(buf, rec, tok, mint, user, d) ==
    LET burn == BurnCpi(tok, mint, user, rec.price)
        c == FillAndCopy(rec.echo_data, d)
        w == WriteSlice(buf, SerializeVending([rec EXCEPT !.echo_data = c.v]))
    IN  IF ~c.ok THEN Outcome("Panic", FALSE, 0, FALSE, buf)
        ELSE IF ~w.ok THEN Outcome("BorshIoError", FALSE, 0, TRUE, w.buf)
        ELSE IF burn # "Ok" THEN Outcome(burn, FALSE, 0, TRUE, w.buf)
        ELSE Outcome("Ok", FALSE, rec.price, TRUE, w.buf)

\* VendingMachineEcho once the buffer's address is verified: burn price
\* tokens from the user's token account, then zero echo_data, copy the payload
\* in and re-encode the record over the buffer
VendingBurnThenWrite(buf, rec, tok, mint, user, d) ==
    LET burn == BurnCpi(tok, mint, user, rec.price)
    IN  IF burn # "Ok" THEN Outcome(burn, FALSE, 0, FALSE, buf)
        ELSE LET c == FillAndCopy(rec.echo_data, d)
             IN  IF ~c.ok THEN Outcome("Panic", FALSE, rec.price, FALSE, buf)
                 ELSE LET w == WriteSlice(buf, SerializeVending(
                                   [rec EXCEPT !.echo_data = c.v]))
                      IN  IF ~w.ok
                          THEN Outcome("BorshIoError", FALSE, rec.price, TRUE, w.buf)
                          ELSE Outcome("Ok", FALSE, rec.price, TRUE, w.buf)

\* VendingMachineEcho re-deriving the address from the mint stored in the
\* header, the mint account passed by the caller going unchecked to the burn
VendingMachineEchoHandlerStoredMint(buf, target, user, signer, wr, tok, mint, d) ==
    LET dec == DeserializeVending(buf)
        pda == CreateProgramAddress(VendingDeriveLabel, dec.v.vending_machine_mint,
                                    dec.v.price, dec.v.bump_seed)
    IN  IF ~signer THEN Outcome("AuthorityNotSigner", FALSE, 0, FALSE, buf)
        ELSE IF "buffer" \notin wr \/ "token" \notin wr \/ "mint" \notin wr
        THEN Outcome("InvalidArgument", FALSE, 0, FALSE, buf)
        ELSE IF ~dec.ok THEN Outcome("BorshIoError", FALSE, 0, FALSE, buf)
        ELSE IF ~pda.ok THEN Outcome("InvalidSeeds", FALSE, 0, FALSE, buf)
        ELSE IF pda.key # target THEN Outcome("InvalidAuthority", FALSE, 0, FALSE, buf)
        ELSE VendingBurnThenWrite(buf, dec.v, tok, mint, user, d)

\* VendingMachineEcho checking the writable flag of the buffer alone
VendingMachineEchoHandlerBufferOnly(buf, target, user, signer, wr, tok, mint, d) ==
    LET dec == DeserializeVending(buf)
        pda == CreateProgramAddress(VendingDeriveLabel, mint,
                                    dec.v.price, dec.v.bump_seed)
    IN  IF ~signer THEN Outcome("AuthorityNotSigner", FALSE, 0, FALSE, buf)
        ELSE IF "buffer" \notin wr THEN Outcome("InvalidArgument", FALSE, 0, FALSE, buf)
        ELSE IF ~dec.ok THEN Outcome("BorshIoError", FALSE, 0, FALSE, buf)
        ELSE IF ~pda.ok THEN Outcome("InvalidSeeds", FALSE, 0, FALSE, buf)
        ELSE IF pda.key # target THEN Outcome("InvalidAuthority", FALSE, 0, FALSE, buf)
        ELSE VendingBurnThenWrite(buf, dec.v, tok, mint, user, d)

\* EchoInstruction::VendingMachineEcho { data }; wr is the set of the accounts
\* passed writable, tok the user's token account
VendingMachineEchoHandler(buf, target, user, signer, wr, tok, mint, d) ==
    IF ~signer THEN Outcome("AuthorityNotSigner", FALSE, 0, FALSE, buf)
    ELSE IF "buffer" \notin wr \/ "token" \notin wr \/ "mint" \notin wr
    THEN Outcome("InvalidArgument", FALSE, 0, FALSE, buf)
    ELSE LET dec == DeserializeVending(buf)
         IN  IF ~dec.ok THEN Outcome("BorshIoError", FALSE, 0, FALSE, buf)
             ELSE LET pda == CreateProgramAddress(VendingDeriveLabel, mint,
                                                  dec.v.price, dec.v.bump_seed)
                  IN  IF ~pda.ok THEN Outcome("InvalidSeeds", FALSE, 0, FALSE, buf)
                      ELSE IF pda.key # target
                      THEN Outcome("InvalidAuthority", FALSE, 0, FALSE, buf)
                      ELSE VendingBurnThenWrite(buf, dec.v, tok, mint, user, d)

---------------------------------------------------------------------------
(* State.  data[a] is the byte content of account a (empty: never created), *)
(* tokens[t] the token account t, last the instruction executed last with   *)
(* its result.  echoed and initializer are history: per account, how many   *)
(* Echo instructions succeeded on it (and how many of them wrote a non-zero *)
(* byte), and who initialized it.  codec holds the last record encoded by   *)
(* the codec specification.                                                 *)

\* tokens each user token account starts with
Funds == 3
\* the history counters of echoed stop counting here
EchoCap == 2

AuthorityPda(u, seed) == FindProgramAddress(AuthorizedDeriveLabel, u, seed).key
VendingPda(m, price) == FindProgramAddress(VendingDeriveLabel, m, price).key

\* the plain echo buffer, created by the host with a keypair address
EchoBuffer == KeyAddr("E1")

\* sizes an initialize instruction is called with: from one byte less than
\* the fixed header fields need
AuthorizedSizes == (9 + 4 - 1)..(9 + 4 + MaxEcho)
VendingSizes == (1 + 8 + 4 + 4 - 1)..(1 + 8 + 4 + 4 + MaxEcho)

\* the writable flags of (buffer, token account, mint): all set, or one cleared
AllWritable == {"buffer", "token", "mint"}
WritableSets == {AllWritable} \cup {AllWritable \ {x} : x \in AllWritable}

TokenAccounts ==
    (KeyAddr("T1") :> [mint |-> "M1", owner |-> "A1", amount |-> Funds])
    @@ (KeyAddr("T2") :> [mint |-> "M2", owner |-> "A2", amount |-> Funds])

NoInstruction ==
    [ix |-> "none", target |-> EchoBuffer, who |-> "A1", signer |-> FALSE,
     mint |-> "M1", num |-> 0, size |-> 0, payload |-> <<>>, wr |-> {},
     token |-> KeyAddr("T1"), result |-> "none", created |-> FALSE, burned |-> 0,
     wrote |-> FALSE, pre |-> <<>>, buf |-> <<>>, had |-> 0]

NoCodec == [op |-> "none", size |-> 0, rec |-> NoAuthorized, bytes |-> <<>>,
            back |-> [ok |-> FALSE, v |-> NoAuthorized]]

\* After deployment: a plain echo buffer of some length, zero-filled by the
\* host, and the derived addresses callers will pass, not yet created
Init ==
    /\ \E n \in 0..MaxBuf :
          data = [a \in {EchoBuffer} \cup {AuthorityPda(u, 1) : u \in Users}
                        \cup {VendingPda("M1", 1)}
                  |-> IF a = EchoBuffer THEN Zeros(n) ELSE <<>>]
    /\ tokens = TokenAccounts
    /\ last = NoInstruction
    /\ echoed = [a \in DOMAIN data |-> [ok |-> 0, nz |-> 0]]
    /\ initializer = [a \in DOMAIN data |-> "none"]
    /\ codec = NoCodec

\* A vending-machine buffer as a working InitializeVendingMachineEcho would
\* leave it (the record at its derived address, echo_data zero-filled),
\* loaded by the host: the instruction itself never completes
InitVend ==
    /\ \E m \in Mints, price \in Seeds, n \in 0..MaxEcho :
          LET pda == FindProgramAddress(VendingDeriveLabel, m, price)
          IN  /\ data = (pda.key :> SerializeVending(
                            [bump_seed |-> pda.bump, price |-> price,
                             vending_machine_mint |-> m, echo_data |-> Zeros(n)]))
              /\ initializer = (pda.key :> "host")
              /\ echoed = (pda.key :> [ok |-> 0, nz |-> 0])
    /\ tokens = TokenAccounts
    /\ last = NoInstruction
    /\ codec = NoCodec

HasNonZero(bs) == \E i \in 1..Len(bs) : bs[i] # 0

\* No instruction's result is waiting to be read
Idle == last.ix = "none"

\* The host commits a successful instruction's effects and discards a failed one's
Commit(target, token, out, rec) ==
    /\ data' = IF out.result = "Ok" THEN [data EXCEPT ![target] = out.buf] ELSE data
    /\ tokens' = IF out.result = "Ok" /\ out.burned > 0
                 THEN [tokens EXCEPT ![token].amount = @ - out.burned]
                 ELSE tokens
    /\ last' = [rec EXCEPT !.result = out.result, !.created = out.created,
                           !.burned = out.burned, !.wrote = out.wrote,
                           !.pre = data[target], !.buf = out.buf,
                           !.had = tokens[token].amount]
    /\ echoed' = IF rec.ix = "Echo" /\ out.result = "Ok"
                 THEN [echoed EXCEPT ![target] =
                          [ok |-> Min(@.ok + 1, EchoCap),
                           nz |-> IF ~HasNonZero(out.buf) THEN @.nz
                                  ELSE Min(@.nz + 1, EchoCap)]]
                 ELSE echoed
    /\ initializer' = IF out.result = "Ok" /\ out.created
                      THEN [initializer EXCEPT ![target] = rec.who]
                      ELSE initializer
    /\ UNCHANGED codec

Echo ==
    /\ Idle
    /\ \E target \in DOMAIN data, d \in Payloads :
        Commit(target, KeyAddr("T1"), EchoHandler(data[target], d),
               [NoInstruction EXCEPT !.ix = "Echo", !.target = target, !.payload = d])

InitializeAuthorizedEcho ==
    /\ Idle
    /\ \E target \in DOMAIN data, authority \in Users, signer \in BOOLEAN,
       seed \in Seeds, size \in AuthorizedSizes :
        Commit(target, KeyAddr("T1"),
               InitializeAuthorizedEchoHandler(data[target], target, authority,
                                               signer, seed, size),
               [NoInstruction EXCEPT !.ix = "InitializeAuthorizedEcho",
                    !.target = target, !.who = authority, !.signer = signer,
                    !.num = seed, !.size = size])

AuthorizedEcho ==
    /\ Idle
    /\ \E target \in DOMAIN data, authority \in Users, signer \in BOOLEAN,
       d \in Payloads :
        Commit(target, KeyAddr("T1"),
               AuthorizedEchoHandler(data[target], target, authority, signer, d),
               [NoInstruction EXCEPT !.ix = "AuthorizedEcho", !.target = target,
                    !.who = authority, !.signer = signer, !.payload = d])

InitializeVendingMachineEcho ==
    /\ Idle
    /\ \E target \in DOMAIN data, mint \in Mints, payer \in Users,
       signer \in BOOLEAN, writable \in BOOLEAN, price \in Seeds,
       size \in VendingSizes :
        Commit(target, KeyAddr("T1"),
               InitializeVendingMachineEchoHandler(data[target], target, mint,
                                                   signer, writable, price, size),
               [NoInstruction EXCEPT !.ix = "InitializeVendingMachineEcho",
                    !.target = target, !.who = payer, !.mint = mint,
                    !.signer = signer,
                    !.wr = IF writable THEN {"buffer"} ELSE {},
                    !.num = price, !.size = size])

VendingMachineEcho ==
    /\ Idle
    /\ \E target \in DOMAIN data, user \in Users, signer \in BOOLEAN,
       wr \in WritableSets, token \in DOMAIN tokens, mint \in Mints,
       d \in Payloads :
        Commit(target, token,
               VendingMachineEchoHandler(data[target], target, user, signer, wr,
                                         tokens[token], mint, d),
               [NoInstruction EXCEPT !.ix = "VendingMachineEcho", !.target = target,
                    !.who = user, !.signer = signer, !.wr = wr, !.token = token,
                    !.mint = mint, !.payload = d])

\* The client reads the result of its transaction; the next one can be sent
Confirm ==
    /\ ~Idle
    /\ last' = NoInstruction
    /\ UNCHANGED <<data, tokens, echoed, initializer, codec>>

Next ==
    \/ Echo
    \/ InitializeAuthorizedEcho
    \/ AuthorizedEcho
    \/ InitializeVendingMachineEcho
    \/ VendingMachineEcho
    \/ Confirm

\* The program on the accounts present after deployment
Spec == Init /\ [][Next]_vars

\* The program on a vending-machine buffer loaded by the host
SpecVend == InitVend /\ [][Next]_vars

\* The program on either set of accounts
SpecAll == (Init \/ InitVend) /\ [][Next]_vars

---------------------------------------------------------------------------
(* The codec on its own: the records the initialize instructions build, and *)
(* records with arbitrary echo_data, encoded and decoded again.             *)

\* numeric header fields that take one, two and three bytes
CodecNumbers == {0, 1, 2, 255, 256, 65536 + 7}

InitCodec ==
    /\ data = <<>>
    /\ tokens = <<>>
    /\ last = NoInstruction
    /\ echoed = <<>>
    /\ initializer = <<>>
    /\ codec = NoCodec

\* the record InitializeAuthorizedEcho serializes for buffer_size = size
EncodeAuthorizedInit ==
    /\ codec.op = "none"
    /\ \E u \in Users, seed \in CodecNumbers, size \in (9 + 4)..(9 + 4 + MaxEcho) :
        LET rec == AuthorizedInitRecord(
                       FindProgramAddress(AuthorizedDeriveLabel, u, seed).bump, seed, size)
        IN  /\ codec' = [op |-> "AuthorizedInit", size |-> size, rec |-> rec,
                         bytes |-> SerializeAuthorized(rec),
                         back |-> DeserializeAuthorized(SerializeAuthorized(rec))]
            /\ UNCHANGED <<data, tokens, last, echoed, initializer>>

\* the record InitializeVendingMachineEcho serializes for buffer_size = size
EncodeVendingInit ==
    /\ codec.op = "none"
    /\ \E m \in Mints, price \in CodecNumbers,
       size \in (1 + 8 + 4 + 4)..(1 + 8 + 4 + 4 + MaxEcho) :
        LET rec == VendingInitRecord(
                       FindProgramAddress(VendingDeriveLabel, m, price).bump, price, m, size)
        IN  /\ codec' = [op |-> "VendingInit", size |-> size, rec |-> rec,
                         bytes |-> SerializeVending(rec),
                         back |-> DeserializeVending(SerializeVending(rec))]
            /\ UNCHANGED <<data, tokens, last, echoed, initializer>>

\* any AuthorizedBufferHeader, serialized and read back with try_from_slice
RoundTripAuthorized ==
    /\ codec.op = "none"
    /\ \E bump \in {0, 254, 255}, seed \in CodecNumbers, e \in Payloads :
        LET rec == [bump_seed |-> bump, buffer_seed |-> seed, echo_data |-> e]
        IN  /\ codec' = [op |-> "RoundTripAuthorized", size |-> Len(SerializeAuthorized(rec)),
                         rec |-> rec, bytes |-> SerializeAuthorized(rec),
                         back |-> DeserializeAuthorized(SerializeAuthorized(rec))]
            /\ UNCHANGED <<data, tokens, last, echoed, initializer>>

\* any VendingMachineBufferHeader, serialized and read back with try_from_slice
RoundTripVending ==
    /\ codec.op = "none"
    /\ \E bump \in {0, 254, 255}, price \in CodecNumbers, m \in Mints, e \in Payloads :
        LET rec == [bump_seed |-> bump, price |-> price,
                    vending_machine_mint |-> m, echo_data |-> e]
        IN  /\ codec' = [op |-> "RoundTripVending", size |-> Len(SerializeVending(rec)),
                         rec |-> rec, bytes |-> SerializeVending(rec),
                         back |-> DeserializeVending(SerializeVending(rec))]
            /\ UNCHANGED <<data, tokens, last, echoed, initializer>>

\* the record is dropped; the codec takes the next one
DropRecord ==
    /\ codec.op # "none"
    /\ codec' = NoCodec
    /\ UNCHANGED <<data, tokens, last, echoed, initializer>>

NextCodec ==
    \/ EncodeAuthorizedInit
    \/ EncodeVendingInit
    \/ RoundTripAuthorized
    \/ RoundTripVending
    \/ DropRecord

SpecCodec == InitCodec /\ [][NextCodec]_vars

---------------------------------------------------------------------------
(* Instructions on the wire: process_instruction receives bytes, decodes    *)
(* them and dispatches on the instruction kind.  The byte layout is the     *)
(* Borsh encoding of the enum: a discriminant byte, then the fields.        *)

InstructionKinds ==
    <<"Echo", "InitializeAuthorizedEcho", "AuthorizedEcho",
      "InitializeVendingMachineEcho", "VendingMachineEcho">>

NoFields == [ix |-> "none", data |-> <<>>, num |-> 0, size |-> 0]

\* payloads of the instructions sent as bytes: empty, one byte, the longest
WirePayloads == {d \in Payloads : Len(d) = 0 \/ (d[1] = 7 /\ d[Len(d)] = 7)}

\* the instructions clients send
WireInstructions ==
    {[NoFields EXCEPT !.ix = k, !.data = d] :
        k \in {"Echo", "AuthorizedEcho", "VendingMachineEcho"}, d \in WirePayloads}
    \cup {[NoFields EXCEPT !.ix = "InitializeAuthorizedEcho", !.num = n, !.size = z] :
        n \in Seeds, z \in AuthorizedSizes}
    \cup {[NoFields EXCEPT !.ix = "InitializeVendingMachineEcho", !.num = n, !.size = z] :
        n \in Seeds, z \in VendingSizes}

Discriminant(k) == CHOOSE i \in 0..4 : InstructionKinds[i + 1] = k

\* EchoInstruction::try_to_vec
EncodeInstruction(i) ==
    IF i.ix \in {"Echo", "AuthorizedEcho", "VendingMachineEcho"}
    THEN <<Discriminant(i.ix)>> \o ToLeBytes(Len(i.data), 4) \o i.data
    ELSE <<Discriminant(i.ix)>> \o ToLeBytes(i.num, 8) \o ToLeBytes(i.size, 8)

\* EchoInstruction::try_from_slice: reads the discriminant and the fields in
\* order; fails on an unknown discriminant, on missing bytes and on bytes
\* left over
DecodeInstruction(bs) ==
    IF Len(bs) = 0 THEN [ok |-> FALSE, v |-> NoFields]
    ELSE IF bs[1] \in {0, 2, 4}
    THEN IF Len(bs) < 1 + 4 THEN [ok |-> FALSE, v |-> NoFields]
         ELSE IF Len(bs) # 1 + 4 + FromLeBytes(SubSeq(bs, 2, 5))
         THEN [ok |-> FALSE, v |-> NoFields]
         ELSE [ok |-> TRUE,
               v |-> [NoFields EXCEPT !.ix = InstructionKinds[bs[1] + 1],
                                      !.data = SubSeq(bs, 6, Len(bs))]]
    ELSE IF bs[1] \in {1, 3}
    THEN IF Len(bs) # 1 + 8 + 8 THEN [ok |-> FALSE, v |-> NoFields]
         ELSE [ok |-> TRUE,
               v |-> [NoFields EXCEPT !.ix = InstructionKinds[bs[1] + 1],
                                      !.num = FromLeBytes(SubSeq(bs, 2, 9)),
                                      !.size = FromLeBytes(SubSeq(bs, 10, 17))]]
    ELSE [ok |-> FALSE, v |-> NoFields]

\* the bytes clients send: encoded instructions, and encoded instructions
\* cut short, extended, or with an unknown discriminant
ValidWire == {EncodeInstruction(i) : i \in WireInstructions}
WireInputs ==
    ValidWire
    \cup {<<>>, <<5>>, <<5, 0, 0, 0, 0>>, <<255>>}
    \cup {SubSeq(b, 1, Len(b) - 1) : b \in ValidWire}
    \cup {b \o <<0>> : b \in ValidWire}

\* undecodable bytes handed to the Echo handler as its payload
ProcessInstructionLenient(bytes, buf, target, who, signer, wr, tok, mint) ==
    LET dec == DecodeInstruction(bytes)
    IN  IF ~dec.ok THEN EchoHandler(buf, bytes)
        ELSE CASE dec.v.ix = "Echo" -> EchoHandler(buf, dec.v.data)
               [] dec.v.ix = "InitializeAuthorizedEcho" ->
                    InitializeAuthorizedEchoHandler(buf, target, who, signer,
                                                    dec.v.num, dec.v.size)
               [] dec.v.ix = "AuthorizedEcho" ->
                    AuthorizedEchoHandler(buf, target, who, signer, dec.v.data)
               [] dec.v.ix = "InitializeVendingMachineEcho" ->
                    InitializeVendingMachineEchoHandler(buf, target, mint, signer,
                        "buffer" \in wr, dec.v.num, dec.v.size)
               [] OTHER ->
                    VendingMachineEchoHandler(buf, target, who, signer, wr, tok,
                                              mint, dec.v.data)

\* Processor::process_instruction: decode, map a decode failure to
\* InvalidInstructionData, else run the handler of the instruction's kind
ProcessInstructionHandler(bytes, buf, target, who, signer, wr, tok, mint) ==
    LET dec == DecodeInstruction(bytes)
    IN  IF ~dec.ok THEN Outcome("InvalidInstructionData", FALSE, 0, FALSE, buf)
        ELSE CASE dec.v.ix = "Echo" -> EchoHandler(buf, dec.v.data)
               [] dec.v.ix = "InitializeAuthorizedEcho" ->
                    InitializeAuthorizedEchoHandler(buf, target, who, signer,
                                                    dec.v.num, dec.v.size)
               [] dec.v.ix = "AuthorizedEcho" ->
                    AuthorizedEchoHandler(buf, target, who, signer, dec.v.data)
               [] dec.v.ix = "InitializeVendingMachineEcho" ->
                    InitializeVendingMachineEchoHandler(buf, target, mint, signer,
                        "buffer" \in wr, dec.v.num, dec.v.size)
               [] OTHER ->
                    VendingMachineEchoHandler(buf, target, who, signer, wr, tok,
                                              mint, dec.v.data)

\* A client sends instruction bytes; they wait in codec to be processed
Submit ==
    /\ Idle /\ codec.op = "none"
    /\ \E bytes \in WireInputs :
          codec' = [NoCodec EXCEPT !.op = "Instruction", !.size = Len(bytes),
                                   !.bytes = bytes]
    /\ UNCHANGED <<data, tokens, last, echoed, initializer>>

\* The bytes waiting are processed on the accounts passed with them (the
\* vending accounts are the first mint and its token account, all writable)
ProcessInstruction ==
    /\ Idle /\ codec.op = "Instruction"
    /\ \E target \in DOMAIN data, who \in Users, signer \in BOOLEAN,
       wr \in {AllWritable}, token \in {KeyAddr("T1")}, mint \in {"M1"} :
        LET dec == DecodeInstruction(codec.bytes)
        IN  Commit(target, token,
                   ProcessInstructionHandler(codec.bytes, data[target], target, who,
                                             signer, wr, tokens[token], mint),
                   [NoInstruction EXCEPT
                        !.ix = IF dec.ok THEN dec.v.ix ELSE "Undecodable",
                        !.target = target, !.who = who, !.signer = signer,
                        !.wr = wr, !.token = token, !.mint = mint,
                        !.num = dec.v.num, !.size = dec.v.size,
                        !.payload = dec.v.data])

\* The client reads the result; the bytes are dropped
ConfirmWire ==
    /\ ~Idle
    /\ last' = NoInstruction
    /\ codec' = NoCodec
    /\ UNCHANGED <<data, tokens, echoed, initializer>>

NextWire ==
    \/ Submit
    \/ ProcessInstruction
    \/ ConfirmWire

\* The program fed instruction bytes
SpecWire == Init /\ [][NextWire]_vars

---------------------------------------------------------------------------
(* Properties.  They read the instruction executed last: its inputs, the   *)
(* target buffer before it (last.pre), the buffer as the handler left it     *)
(* (last.buf), the effects it performed, its result, and the state after it. *)

\* the first n bytes of d, zero-padded to n bytes
Padded(d, n) == [i \in 1..n |-> IF i <= Len(d) THEN d[i] ELSE 0]

Ran(ix) == last.ix = ix

\* C1: Echo(D) on an all-zero buffer of length > 0 succeeds for every payload
\* D, shorter or longer than the buffer, and leaves the first
\* min(len(B), len(D)) bytes of D followed by zeros.
C1_EchoCopiesPrefix ==
    (Ran("Echo") /\ Len(last.pre) > 0 /\ ~HasNonZero(last.pre))
        => /\ last.result = "Ok"
           /\ data[last.target] = Padded(last.payload, Len(last.pre))

\* C2: AuthorizedEcho(D) signed by the authority that initialized the buffer
\* succeeds for every payload D and leaves echo_data equal to the first
\* min(len(echo_data), len(D)) bytes of D followed by zeros, its length unchanged.
C2_AuthorizedEchoStoresPayload ==
    (Ran("AuthorizedEcho") /\ last.signer /\ initializer[last.target] = last.who)
        => /\ last.result = "Ok"
           /\ DeserializeAuthorized(data[last.target]).ok
           /\ DeserializeAuthorized(data[last.target]).v.echo_data
                = Padded(last.payload,
                         Len(DeserializeAuthorized(last.pre).v.echo_data))

\* C3: InitializeVendingMachineEcho(price, buffer_size) on the target
\* derive("vending_machine", mint, price), not yet created, with a signing
\* payer succeeds; a VendingMachineEcho(D) on the initialized buffer by a
\* signing user whose token account holds at least price tokens succeeds,
\* takes exactly price tokens and leaves echo_data equal to D truncated or
\* zero-padded to its fixed length.
C3_VendingMachineScenario ==
    /\ (Ran("InitializeVendingMachineEcho") /\ last.signer /\ "buffer" \in last.wr
            /\ last.target = VendingPda(last.mint, last.num)
            /\ last.pre = <<>> /\ last.size >= 1 + 8 + 4 + 4)
          => last.result = "Ok"
    /\ (Ran("VendingMachineEcho") /\ last.signer /\ last.wr = AllWritable
            /\ initializer[last.target] # "none"
            /\ DeserializeVending(last.pre).ok
            /\ last.target = VendingPda(last.mint, DeserializeVending(last.pre).v.price)
            /\ tokens[last.token].owner = last.who
            /\ tokens[last.token].mint = last.mint
            /\ last.had >= DeserializeVending(last.pre).v.price)
          => /\ last.result = "Ok"
             /\ tokens[last.token].amount
                  = last.had - DeserializeVending(last.pre).v.price
             /\ DeserializeVending(data[last.target]).v.echo_data
                  = Padded(last.payload,
                           Len(DeserializeVending(last.pre).v.echo_data))

\* C4 as stated: a signed InitializeAuthorizedEcho succeeds if and only if the
\* supplied target is derive("authority", owner, seed); with any other target
\* it fails with InvalidAuthorizedBuffer, creating and writing nothing.
C4_SucceedsIffDerived ==
    (Ran("InitializeAuthorizedEcho") /\ last.signer)
        => /\ (last.result = "Ok") <=> (last.target = AuthorityPda(last.who, last.num))
           /\ last.target # AuthorityPda(last.who, last.num)
                 => /\ last.result = "InvalidAuthorizedBuffer"
                    /\ ~last.created /\ ~last.wrote /\ last.buf = last.pre

\* C4 amended: a signed InitializeAuthorizedEcho succeeds if and only if the
\* supplied target is derive("authority", owner, seed), the account does not
\* exist yet (the creation call succeeds) and buffer_size >= 13; with any
\* other target it fails with InvalidAuthorizedBuffer, creating and writing
\* nothing.
C4_SucceedsIffDerivedFreshAndSized ==
    (Ran("InitializeAuthorizedEcho") /\ last.signer)
        => /\ (last.result = "Ok")
                 <=> /\ last.target = AuthorityPda(last.who, last.num)
                     /\ last.pre = <<>>
                     /\ last.size >= 9 + 4
           /\ last.target # AuthorityPda(last.who, last.num)
                 => /\ last.result = "InvalidAuthorizedBuffer"
                    /\ ~last.created /\ ~last.wrote /\ last.buf = last.pre
                    /\ data[last.target] = last.pre

\* C4 witnesses: a signed initialize refused for its target address, after
\* another one succeeded
C4_RefusedTarget ==
    /\ Ran("InitializeAuthorizedEcho") /\ last.signer
    /\ last.target # AuthorityPda(last.who, last.num)
    /\ last.result = "InvalidAuthorizedBuffer"
    /\ \E a \in DOMAIN data : initializer[a] \in Users

\* C5 as stated: the content of a buffer initialized by authority A is
\* changed only by an AuthorizedEcho signed by A; an AuthorizedEcho signed by
\* any other identity fails with InvalidAuthority and leaves the buffer
\* unchanged.
C5_OtherIdentityInvalidAuthority ==
    /\ (~Idle /\ initializer[last.target] \in Users /\ last.pre # <<>>
            /\ (last.wrote \/ last.buf # last.pre \/ data[last.target] # last.pre))
          => Ran("AuthorizedEcho") /\ last.signer
                /\ last.who = initializer[last.target]
    /\ (Ran("AuthorizedEcho") /\ last.signer /\ initializer[last.target] \in Users
            /\ last.who # initializer[last.target])
          => /\ last.result = "InvalidAuthority"
             /\ ~last.wrote /\ last.buf = last.pre /\ data[last.target] = last.pre

\* C5 amended: the content of a buffer initialized by authority A is changed
\* only by an AuthorizedEcho signed by A; an AuthorizedEcho signed by any
\* other identity fails and leaves the buffer unchanged: with InvalidSeeds
\* when the stored bump_seed and buffer_seed derive no address for that
\* identity, with InvalidAuthority when they derive one (it differs from the
\* target's).
C5_OtherIdentityRefused ==
    /\ (~Idle /\ initializer[last.target] \in Users /\ last.pre # <<>>
            /\ (last.wrote \/ last.buf # last.pre \/ data[last.target] # last.pre))
          => Ran("AuthorizedEcho") /\ last.signer
                /\ last.who = initializer[last.target]
    /\ (Ran("AuthorizedEcho") /\ last.signer /\ initializer[last.target] \in Users
            /\ last.who # initializer[last.target])
          => /\ last.result =
                   IF OnCurve("authority", last.who,
                              DeserializeAuthorized(last.pre).v.buffer_seed,
                              DeserializeAuthorized(last.pre).v.bump_seed)
                   THEN "InvalidSeeds" ELSE "InvalidAuthority"
             /\ ~last.wrote /\ last.buf = last.pre /\ data[last.target] = last.pre

\* C5 witness: another identity refused with InvalidAuthority on a buffer
\* whose authority had written a non-zero echo_data
C5_OtherIdentityTried ==
    /\ Ran("AuthorizedEcho") /\ last.signer
    /\ initializer[last.target] \in Users
    /\ last.who # initializer[last.target]
    /\ HasNonZero(DeserializeAuthorized(last.pre).v.echo_data)
    /\ last.result = "InvalidAuthority"

\* the VendingMachineEcho executed last got as far as the burn call
ReachedBurn ==
    /\ Ran("VendingMachineEcho") /\ last.signer /\ last.wr = AllWritable
    /\ DeserializeVending(last.pre).ok
    /\ last.target = VendingPda(last.mint, DeserializeVending(last.pre).v.price)

\* the token program refuses the burn
BurnRefused ==
    \/ last.had < DeserializeVending(last.pre).v.price
    \/ tokens[last.token].mint # last.mint
    \/ tokens[last.token].owner # last.who

\* C6: when the burn call of a VendingMachineEcho fails, the instruction
\* fails with the token program's error and the buffer and the token balance
\* are unchanged; the buffer is written only after the burn succeeded.
C6_BurnFailureLeavesBuffer ==
    /\ (ReachedBurn /\ BurnRefused)
          => /\ last.result \in {"InsufficientFunds", "MintMismatch", "OwnerMismatch"}
             /\ ~last.wrote /\ last.burned = 0
             /\ last.buf = last.pre /\ data[last.target] = last.pre
             /\ tokens[last.token].amount = last.had
    /\ (Ran("VendingMachineEcho") /\ last.wrote)
          => /\ ReachedBurn /\ ~BurnRefused
             /\ last.burned = DeserializeVending(last.pre).v.price

\* C6 witness: a burn refused for lack of funds, after an earlier echo filled
\* the buffer
C6_BurnRefusedSeen ==
    /\ ReachedBurn
    /\ last.result = "InsufficientFunds"
    /\ HasNonZero(DeserializeVending(last.pre).v.echo_data)

\* C7: no instruction creates an account, burns tokens or writes a buffer
\* and then fails.
C7_NoEffectBeforeFailure ==
    (~Idle /\ last.result # "Ok")
        => ~last.created /\ last.burned = 0 /\ ~last.wrote

\* C8: Echo on a buffer holding a non-zero byte fails with NonZeroData for
\* every payload and leaves every byte unchanged.
C8_EchoRefusesNonZero ==
    (Ran("Echo") /\ HasNonZero(last.pre))
        => /\ last.result = "NonZeroData"
           /\ ~last.wrote /\ last.buf = last.pre /\ data[last.target] = last.pre

\* C8 witness: an Echo refused on the plain buffer that holds a zero byte
\* before its non-zero one
C8_EchoOnNonZeroSeen ==
    /\ Ran("Echo") /\ last.target = EchoBuffer
    /\ Len(last.pre) > 1 /\ last.pre[1] = 0 /\ HasNonZero(last.pre)
    /\ last.result = "NonZeroData"

\* C9 as stated: in any sequence of Echo instructions on one buffer, at most
\* one Echo ever succeeds, whatever the payloads (zero-only ones included).
C9_AtMostOneEcho == \A a \in DOMAIN echoed : echoed[a].ok <= 1

\* C9 amended: at most one Echo that writes a non-zero byte ever succeeds per
\* buffer; once one has, every later Echo on that buffer fails with
\* NonZeroData.  (An Echo that copies only zero bytes leaves the buffer
\* all-zero, and a later Echo can succeed.)
C9_AtMostOneNonZeroEcho ==
    /\ \A a \in DOMAIN echoed : echoed[a].nz <= 1
    /\ (Ran("Echo") /\ echoed[last.target].nz >= 1)
          => \/ last.result = "NonZeroData"
             \/ last.result = "Ok" /\ ~HasNonZero(last.pre) /\ HasNonZero(last.buf)

\* C9 witness: an Echo refused on a buffer that took a zero-only Echo and then
\* a non-zero one
C9_LaterEchoRefused ==
    /\ Ran("Echo") /\ last.result = "NonZeroData"
    /\ echoed[last.target].ok = 2 /\ echoed[last.target].nz = 1

\* C10: the record an initialize instruction builds for buffer_size encodes
\* to exactly buffer_size bytes: 9 (AuthorizedBufferHeader) or 41
\* (VendingMachineBufferHeader) bytes of fixed fields + 4 bytes of length
\* prefix + len(echo_data).
C10_RecordFitsAccount ==
    /\ codec.op = "AuthorizedInit"
          => /\ Len(codec.bytes) = codec.size
             /\ 9 + 4 + Len(codec.rec.echo_data) = codec.size
    /\ codec.op = "VendingInit"
          => /\ Len(codec.bytes) = codec.size
             /\ 41 + 4 + Len(codec.rec.echo_data) = codec.size

\* the echo_data length stored in buffer bytes bs of the account at address
\* a (-1: the bytes are not a record of the account's kind)
EchoLen(a, bs) ==
    IF a[1] = "authority"
    THEN IF DeserializeAuthorized(bs).ok
         THEN Len(DeserializeAuthorized(bs).v.echo_data) ELSE -1
    ELSE IF DeserializeVending(bs).ok
         THEN Len(DeserializeVending(bs).v.echo_data) ELSE -1

\* C11: every AuthorizedEcho and VendingMachineEcho on an initialized buffer,
\* successful or failed, whatever the payload's length, leaves the buffer's
\* byte size and its stored echo_data length as they were before it; so
\* after any sequence of them both are as initialization fixed them.
C11_EchoDataLengthFixed ==
    ((Ran("AuthorizedEcho") \/ Ran("VendingMachineEcho"))
        /\ initializer[last.target] # "none")
      => /\ EchoLen(last.target, last.pre) >= 0
         /\ Len(data[last.target]) = Len(last.pre)
         /\ EchoLen(last.target, data[last.target]) = EchoLen(last.target, last.pre)
         /\ last.result = "Ok" => /\ Len(last.buf) = Len(last.pre)
                                  /\ data[last.target] = last.buf

\* C11 witness: a successful AuthorizedEcho with a payload longer than the
\* echo_data it changes
C11_LongPayloadStored ==
    /\ Ran("AuthorizedEcho") /\ last.result = "Ok"
    /\ initializer[last.target] \in Users
    /\ EchoLen(last.target, last.pre) = 1
    /\ Len(last.payload) = 2
    /\ data[last.target] # last.pre

\* the instructions that require a signature
SignedInstructions ==
    {"InitializeAuthorizedEcho", "AuthorizedEcho",
     "InitializeVendingMachineEcho", "VendingMachineEcho"}

\* C12: InitializeAuthorizedEcho, AuthorizedEcho, InitializeVendingMachineEcho
\* and VendingMachineEcho fail with AuthorityNotSigner when the authority /
\* payer / user has not signed, whatever the other inputs; no account is
\* created, no token burned, no buffer written.
C12_UnsignedRefused ==
    (last.ix \in SignedInstructions /\ ~last.signer)
        => /\ last.result = "AuthorityNotSigner"
           /\ ~last.created /\ last.burned = 0 /\ ~last.wrote
           /\ last.buf = last.pre /\ data[last.target] = last.pre
           /\ tokens[last.token].amount = last.had

\* C12 witness: a VendingMachineEcho refused for the missing signature alone:
\* buffer, mint, writable flags, token account and funds would all pass
C12_OnlySignatureMissing ==
    /\ Ran("VendingMachineEcho") /\ ~last.signer
    /\ last.wr = AllWritable
    /\ DeserializeVending(last.pre).ok
    /\ last.target = VendingPda(last.mint, DeserializeVending(last.pre).v.price)
    /\ BurnCpi(tokens[last.token], last.mint, last.who,
               DeserializeVending(last.pre).v.price) = "Ok"
    /\ Len(last.payload) = Len(DeserializeVending(last.pre).v.echo_data)
    /\ last.result = "AuthorityNotSigner"

\* the bytes are the encoding of one of the five instruction kinds
WellFormedEncodings == {EncodeInstruction(i) : i \in WireInstructions}
WellFormed(bytes) == bytes \in WellFormedEncodings

\* C13: when the instruction bytes do not decode to one of the five
\* instruction kinds, process_instruction returns InvalidInstructionData and
\* no account is read into an effect: nothing is created, burned or written,
\* and every account is unchanged.
C13_UndecodableRefused ==
    (~Idle /\ ~WellFormed(codec.bytes))
        => /\ last.result = "InvalidInstructionData"
           /\ ~last.created /\ last.burned = 0 /\ ~last.wrote
           /\ last.buf = last.pre /\ data[last.target] = last.pre
           /\ tokens[last.token].amount = last.had

\* C13 witness: an Echo instruction with one byte missing, sent to a zeroed
\* echo buffer that the whole instruction would have written
C13_TruncatedEchoSeen ==
    /\ ~Idle /\ last.target = EchoBuffer
    /\ Len(last.pre) = 1 /\ ~HasNonZero(last.pre)
    /\ codec.bytes = <<0, 2, 0, 0, 0, 7>>
    /\ last.result = "InvalidInstructionData"

\* the instruction executed last had no effect at all
NoEffect ==
    /\ ~last.created /\ last.burned = 0 /\ ~last.wrote
    /\ last.buf = last.pre /\ data[last.target] = last.pre
    /\ tokens[last.token].amount = last.had

\* C14 as stated: VendingMachineEcho fails with InvalidArgument when the
\* buffer, the token account or the mint is not writable, and
\* InitializeVendingMachineEcho fails when the buffer is not writable, both
\* without any effect.
C14_NotWritableInvalidArgument ==
    /\ (Ran("VendingMachineEcho") /\ last.wr # AllWritable)
          => last.result = "InvalidArgument" /\ NoEffect
    /\ (Ran("InitializeVendingMachineEcho") /\ "buffer" \notin last.wr)
          => last.result # "Ok" /\ NoEffect

\* C14 amended: a VendingMachineEcho with the buffer, the token account or
\* the mint not writable fails without any effect, with InvalidArgument when
\* the user has signed and with AuthorityNotSigner when not; so does an
\* InitializeVendingMachineEcho with the buffer not writable.  The error is
\* never one of a later step (decoding, derivation, creation, burn).
C14_NotWritableRefused ==
    /\ (Ran("VendingMachineEcho") /\ last.wr # AllWritable)
          => /\ last.result =
                   IF last.signer THEN "InvalidArgument" ELSE "AuthorityNotSigner"
             /\ NoEffect
    /\ (Ran("InitializeVendingMachineEcho") /\ "buffer" \notin last.wr)
          => /\ last.result =
                   IF last.signer THEN "InvalidArgument" ELSE "AuthorityNotSigner"
             /\ NoEffect

\* C14 witness: a signed VendingMachineEcho refused because the mint alone is
\* not writable; buffer, token account and funds would pass
C14_MintNotWritableSeen ==
    /\ Ran("VendingMachineEcho") /\ last.signer
    /\ last.wr = AllWritable \ {"mint"}
    /\ DeserializeVending(last.pre).ok
    /\ last.target = VendingPda(last.mint, DeserializeVending(last.pre).v.price)
    /\ BurnCpi(tokens[last.token], last.mint, last.who,
               DeserializeVending(last.pre).v.price) = "Ok"
    /\ last.result = "InvalidArgument"

\* C15: Echo on an account whose data length is 0 fails with NonZeroData for
\* every payload and writes nothing.
C15_EchoOnEmptyAccount ==
    (Ran("Echo") /\ Len(last.pre) = 0)
        => last.result = "NonZeroData" /\ NoEffect

\* C15 witness: an Echo of the empty payload refused on an account of length
\* 0 (the copy of no bytes into no bytes would have succeeded)
C15_EmptyPayloadOnEmptyAccount ==
    /\ Ran("Echo") /\ Len(last.pre) = 0 /\ Len(last.payload) = 0
    /\ last.result = "NonZeroData"

\* C16: for every initialized authorized buffer and payload D, after an
\* AuthorizedEcho(D) by the authority, (a) a second AuthorizedEcho(D) leaves
\* the buffer as the first left it, and (b) the header is as before and
\* echo_data is D cut or zero-padded to its length: no byte of an earlier
\* payload is left.
C16_AuthorizedEchoIdempotent ==
    (Ran("AuthorizedEcho") /\ last.signer /\ last.who = initializer[last.target])
      => /\ AuthorizedEchoHandler(data[last.target], last.target, last.who,
                                  TRUE, last.payload).buf = data[last.target]
         /\ DeserializeAuthorized(data[last.target]).v =
               [DeserializeAuthorized(last.pre).v EXCEPT
                   !.echo_data = Padded(last.payload, EchoLen(last.target, last.pre))]

\* C17: encoding then decoding an AuthorizedBufferHeader or a
\* VendingMachineBufferHeader yields the original record, and the encoding is
\* [bump_seed:u8][buffer_seed:u64][len:u32][echo_data], respectively
\* [bump_seed:u8][price:u64][mint:32 bytes][len:u32][echo_data].
C17_RecordRoundTrip ==
    /\ codec.op \in {"AuthorizedInit", "RoundTripAuthorized"}
          => /\ codec.back.ok /\ codec.back.v = codec.rec
             /\ Len(codec.bytes) = 1 + 8 + 4 + Len(codec.rec.echo_data)
             /\ codec.bytes[1] = codec.rec.bump_seed
             /\ FromLeBytes(SubSeq(codec.bytes, 2, 9)) = codec.rec.buffer_seed
             /\ FromLeBytes(SubSeq(codec.bytes, 10, 13)) = Len(codec.rec.echo_data)
             /\ SubSeq(codec.bytes, 14, Len(codec.bytes)) = codec.rec.echo_data
    /\ codec.op \in {"VendingInit", "RoundTripVending"}
          => /\ codec.back.ok /\ codec.back.v = codec.rec
             /\ Len(codec.bytes) = 1 + 8 + 32 + 4 + Len(codec.rec.echo_data)
             /\ codec.bytes[1] = codec.rec.bump_seed
             /\ FromLeBytes(SubSeq(codec.bytes, 2, 9)) = codec.rec.price
             /\ SubSeq(codec.bytes, 10, 41) = PubkeyBytes(codec.rec.vending_machine_mint)
             /\ FromLeBytes(SubSeq(codec.bytes, 42, 45)) = Len(codec.rec.echo_data)
             /\ SubSeq(codec.bytes, 46, Len(codec.bytes)) = codec.rec.echo_data

\* C17 witness: a vending record with a three-byte price and a two-byte
\* echo_data, read back from its bytes
C17_VendingRecordReadBack ==
    /\ codec.op = "RoundTripVending"
    /\ codec.rec.price = 65536 + 7
    /\ codec.rec.echo_data = <<7, 0>>
    /\ SubSeq(codec.bytes, 2, 9) = <<7, 0, 1, 0, 0, 0, 0, 0>>
    /\ SubSeq(codec.bytes, 42, 47) = <<2, 0, 0, 0, 7, 0>>
    /\ codec.back.ok

\* C18: in both initialize instructions the signer seeds handed to the
\* account-creation call are the seeds the verified target address was
\* derived from, so a signed initialize instruction on its derived address,
\* not yet created (and writable, for the vending machine), has its account
\* creation authorized and the account created.
C18_SignerSeedsMatchDerivation ==
    /\ (Ran("InitializeAuthorizedEcho") /\ last.signer /\ Len(last.pre) = 0
            /\ last.target = AuthorityPda(last.who, last.num))
          => last.created /\ last.result # "MissingRequiredSignature"
    /\ (Ran("InitializeVendingMachineEcho") /\ last.signer /\ Len(last.pre) = 0
            /\ "buffer" \in last.wr
            /\ last.target = VendingPda(last.mint, last.num))
          => last.created /\ last.result # "MissingRequiredSignature"

\* C19: every Echo that targets a buffer written by a successful initialize
\* instruction with a non-empty echo_data fails with NonZeroData and changes
\* nothing, whatever was echoed into the buffer since.
C19_EchoRefusedOnInitialized ==
    (Ran("Echo") /\ initializer[last.target] # "none"
        /\ EchoLen(last.target, last.pre) > 0)
      => last.result = "NonZeroData" /\ NoEffect

\* C19 witness: an Echo refused on an authorized buffer whose echo_data is
\* still all zero (only the header holds a non-zero byte)
C19_EchoOnFreshRecord ==
    /\ Ran("Echo") /\ initializer[last.target] \in Users
    /\ EchoLen(last.target, last.pre) > 0
    /\ ~HasNonZero(DeserializeAuthorized(last.pre).v.echo_data)
    /\ Len(last.payload) > 0
    /\ last.result = "NonZeroData"

\* the errors of the account-creation call
CreateAccountErrors == {"InvalidSeeds", "MissingRequiredSignature", "AccountAlreadyInUse"}

\* C20: an initialize instruction whose target account already exists fails,
\* creates and writes nothing and leaves the existing bytes as they are; when
\* it reaches the account-creation call (signed, writable, target derived
\* from its seeds) its error is that call's, AccountAlreadyInUse for
\* InitializeAuthorizedEcho.
C20_InitializedAtMostOnce ==
    /\ ((Ran("InitializeAuthorizedEcho") \/ Ran("InitializeVendingMachineEcho"))
            /\ Len(last.pre) > 0)
          => last.result # "Ok" /\ NoEffect
    /\ (Ran("InitializeAuthorizedEcho") /\ Len(last.pre) > 0 /\ last.signer
            /\ last.target = <<"authority", last.who, last.num, last.target[4]>>)
          => last.result = "AccountAlreadyInUse"
    /\ (Ran("InitializeVendingMachineEcho") /\ Len(last.pre) > 0 /\ last.signer
            /\ "buffer" \in last.wr
            /\ last.target = <<"vending_machine", last.mint, last.num, last.target[4]>>)
          => last.result \in CreateAccountErrors

\* C20 witness: a second InitializeAuthorizedEcho by the authority, with the
\* same seed, refused on a buffer that holds an echoed non-zero byte
C20_SecondInitializeRefused ==
    /\ Ran("InitializeAuthorizedEcho") /\ last.signer
    /\ initializer[last.target] = last.who
    /\ HasNonZero(DeserializeAuthorized(last.pre).v.echo_data)
    /\ last.result = "AccountAlreadyInUse"
    /\ data[last.target] = last.pre

\* C21: a VendingMachineEcho succeeds only when the mint account passed is
\* the mint recorded in the buffer's header, and a successful one burns the
\* price recorded in the header, once, from the token account passed: that
\* account's balance drops by the price and no other balance changes.
C21_BurnsStoredPriceOfStoredMint ==
    [][(last'.ix = "VendingMachineEcho" /\ last'.result = "Ok")
          => /\ DeserializeVending(last'.pre).ok
             /\ last'.pre = data[last'.target]
             /\ last'.mint = DeserializeVending(last'.pre).v.vending_machine_mint
             /\ last'.burned = DeserializeVending(last'.pre).v.price
             /\ tokens[last'.token].amount >= last'.burned
             /\ tokens' = [tokens EXCEPT
                              ![last'.token].amount = @ - last'.burned]]_vars

\* C21 witness: a successful VendingMachineEcho on a buffer of price 2 that
\* took two tokens from the account passed
C21_PriceBurned ==
    /\ Ran("VendingMachineEcho") /\ last.result = "Ok"
    /\ DeserializeVending(last.pre).v.price = 2
    /\ last.burned = 2
    /\ tokens[last.token].amount = last.had - 2

\* the header of the record stored in buffer bytes bs of the account at a
HeaderOf(a, bs) ==
    IF a[1] = "authority"
    THEN [DeserializeAuthorized(bs).v EXCEPT !.echo_data = <<>>]
    ELSE [DeserializeVending(bs).v EXCEPT !.echo_data = <<>>]

\* the address the header stored in account a re-derives, with the identity
\* its initialize instruction derived it from
Rederived(a) ==
    LET h == HeaderOf(a, data[a])
    IN  IF a[1] = "authority"
        THEN CreateProgramAddress("authority", initializer[a],
                                  h.buffer_seed, h.bump_seed)
        ELSE CreateProgramAddress("vending_machine", h.vending_machine_mint,
                                  h.price, h.bump_seed)

\* C22: AuthorizedEcho and VendingMachineEcho change only echo_data: each
\* leaves the header fields of an initialized buffer as they were, and
\* every initialized buffer holds a record whose header re-derives the
\* buffer's own address (looked at in every state between instructions, and
\* after each instruction for the buffer it targeted, the only one it can
\* have changed).
C22_HeaderUnchanged ==
    /\ \A a \in (IF Idle THEN DOMAIN data ELSE {last.target}) :
          initializer[a] # "none"
             => /\ EchoLen(a, data[a]) >= 0
                /\ Rederived(a) = [ok |-> TRUE, key |-> a]
    /\ ((Ran("AuthorizedEcho") \/ Ran("VendingMachineEcho"))
            /\ initializer[last.target] # "none")
          => /\ HeaderOf(last.target, data[last.target]) = HeaderOf(last.target, last.pre)
             /\ last.result = "Ok"
                   => HeaderOf(last.target, last.buf) = HeaderOf(last.target, last.pre)

\* C22 witness: a successful VendingMachineEcho that changed echo_data and
\* left the 41 header bytes as they were
C22_OnlyEchoDataChanged ==
    /\ Ran("VendingMachineEcho") /\ last.result = "Ok"
    /\ data[last.target] # last.pre
    /\ SubSeq(data[last.target], 1, 41) = SubSeq(last.pre, 1, 41)

=============================================================================
